---------------------------- MODULE Spec2Model ----------------------------
(***************************************************************************)
(* Model of the pixeltracker core: the token-bucket rate limiter           *)
(* (pixeltracker/security/rate_limiter.py), the batch scanner              *)
(* (pixeltracker/scanners/basic.py, enhanced.py) and the fetch path        *)
(* (pixeltracker/services/network.py).                                     *)
(*                                                                         *)
(* Time is an integer number of ticks.  A bucket's float `tokens` is kept  *)
(* exactly, as an integer number of units, TokenScale units to the token;  *)
(* refill_rate is in units per tick.  retry_after, a quotient, is kept as  *)
(* the pair numerator (units missing) / denominator (refill_rate).         *)
(***************************************************************************)
EXTENDS Integers, Sequences, FiniteSets, TLC

\* ------------------------------------------------------------- bounds
MaxTime == 3
TokenScale == 2
MaxTokensReq == 2
\* Scaled-down stand-ins of the two configurations the limiter builds
\* (1000 / 3600 s / 0.28 and 50 / 300 s / 0.17).
GlobalMaxRequests == 2
GlobalWindow == 4
GlobalRefill == 1
DomainMaxRequests == 1
DomainWindow == 3
DomainRefill == 1

\* Batch scans: the longest URL list, and the concurrency limit (10 by default).
MaxUrls == 3
\* Analysis: the longest tracker list (seven high-risk trackers exhaust the score).
MaxTrackers == 7
\* Classification: the most elements a page holds.
MaxElements == 2
\* Loading: the most signatures the database file holds.
MaxSignatures == 4
\* Reporting: the most current results, historical results, and trackers
\* of one result handed to calculate_privacy_impact_index.
MaxResults == 2
MaxHistorical == 1
MaxResultTrackers == 2
\* Trends: the most periods asked for, and the most results of one period.
MaxPeriods == 3
MaxPeriodResults == 1
concurrent_requests == 2

\* ------------------------------------------------- program constants
rate_limit_delay == 1
BaseScore == 100
HighPenalty == 15
MediumPenalty == 10
LowPenalty == 5
HighRiskThreshold == 2
MediumRiskThreshold == 3

Min(a, b) == IF a <= b THEN a ELSE b
Max(a, b) == IF a >= b THEN a ELSE b

\* The sum of f over the finite set S of its arguments.
RECURSIVE SumOver(_, _)
SumOver(f, S) ==
    IF S = {} THEN 0
    ELSE LET x == CHOOSE y \in S : TRUE IN f[x] + SumOver(f, S \ {x})

\* ------------------------------------------------ rate limiter: data
Procs == {"p1", "p2"}
ClientId == "c1"
Hosts == {"h1"}

GlobalKey(client) == <<"global", "", client>>
DomainKey(domain, client) == <<"domain", domain, client>>
Keys == {GlobalKey(ClientId)} \cup {DomainKey(h, ClientId) : h \in Hosts}

global_config ==
    [max_requests |-> GlobalMaxRequests, window_seconds |-> GlobalWindow,
     refill_rate |-> GlobalRefill]
domain_config ==
    [max_requests |-> DomainMaxRequests, window_seconds |-> DomainWindow,
     refill_rate |-> DomainRefill]
ConfigOf(key) == IF key[1] = "global" THEN global_config ELSE domain_config

\* An absent bucket (a key the dict / the store does not hold).
NoBucket ==
    [present |-> FALSE, tokens |-> 0, last_refill |-> 0,
     config |-> global_config, expires |-> 0]

\* TokenBucket.__init__: a full bucket stamped with the current time.
TokenBucket(config, t) ==
    [present |-> TRUE, tokens |-> config.max_requests * TokenScale,
     last_refill |-> t, config |-> config, expires |-> 0]

\* TokenBucket._refill
Refill(b, t) ==
    [b EXCEPT !.tokens = Min(b.config.max_requests * TokenScale,
                             b.tokens + (t - b.last_refill) * b.config.refill_rate),
              !.last_refill = t]

\* A consume that wants more tokens than it takes (> for >=).
ConsumeStrict(b, n, t) ==
    LET r == Refill(b, t) IN
    IF r.tokens > n * TokenScale
    THEN [bucket |-> [r EXCEPT !.tokens = @ - n * TokenScale], allowed |-> TRUE]
    ELSE [bucket |-> r, allowed |-> FALSE]

\* TokenBucket.consume: the bucket after the call and the value returned.
Consume(b, n, t) ==
    LET r == Refill(b, t) IN
    IF r.tokens >= n * TokenScale
    THEN [bucket |-> [r EXCEPT !.tokens = @ - n * TokenScale], allowed |-> TRUE]
    ELSE [bucket |-> r, allowed |-> FALSE]

\* TokenBucket.to_dict / json.dumps, then json.loads / TokenBucket.from_dict:
\* tokens, last_refill and the bucket's own config survive the round trip.
FromDict(data) ==
    [present |-> TRUE, tokens |-> data.tokens, last_refill |-> data.last_refill,
     config |-> data.config, expires |-> 0]

\* max(0, tokens - bucket.tokens) / config.refill_rate if not allowed else 0
RetryAfter(n, b, allowed, config) ==
    [num |-> IF allowed THEN 0 ELSE Max(0, n * TokenScale - b.tokens),
     den |-> config.refill_rate]

\* int(bucket.tokens)
Remaining(b) == b.tokens \div TokenScale

\* The dict check_rate_limit returns; kind tells a return from a raise.
NoResult ==
    [kind |-> "none", allowed |-> FALSE, remaining |-> 0,
     retry_after |-> [num |-> 0, den |-> 1], error |-> FALSE]
Raised == [NoResult EXCEPT !.kind = "raised"]
Admission(b, n, allowed, config) ==
    [kind |-> "returned", allowed |-> allowed, remaining |-> Remaining(b),
     retry_after |-> RetryAfter(n, b, allowed, config), error |-> FALSE]
\* The except branch of check_rate_limit: fail open.
FailOpen(config) ==
    [kind |-> "returned", allowed |-> TRUE, remaining |-> config.max_requests,
     retry_after |-> [num |-> 0, den |-> 1], error |-> TRUE]

VARIABLES
    now,            \* time.time(), in ticks
    buckets,        \* LocalRateLimiter.buckets
    lastLocal,      \* what the last LocalRateLimiter.check_rate_limit returned
    streak,         \* per key: the run of consecutive admitted 1-token requests
    pendingDeny,    \* per key: the latest denial no admission has followed
    storeUp,        \* whether the shared store answers
    store,          \* the shared store: key -> serialized bucket
    redis_client,   \* per caller: DistributedRateLimiter.redis_client is set
    pc,             \* per caller: position inside check_rate_limit
    call,           \* per caller: the arguments of the check_rate_limit in progress
    bucket,         \* per caller: the local variable `bucket`
    result,         \* per caller: outcome of its latest check_rate_limit
    crl,            \* per caller: the check_rate_limits call in progress / finished
    granted,        \* per key: tokens handed out by reads made at the current instant
    avail           \* per key: whole tokens the stored bucket held when the instant began

VARIABLES
    urls,               \* the list given to scan_multiple_urls
    scanner,            \* "basic" or "enhanced": the class of the scanner
    db_enabled,         \* config_manager.database.enabled
    semaphore,          \* free slots of the asyncio.Semaphore
    task,               \* per position: where scan_with_semaphore(urls[i]) stands
    fate,               \* per position: what the fetch, the page and the storage did
    wake,               \* per position: when the sleep of _enforce_rate_limit ends
    last_request_time,  \* NetworkService.last_request_time
    outcome,            \* per position: what the task handed to gather
    batch,              \* "running" until scan_multiple_urls returns
    results             \* the list scan_multiple_urls returned

VARIABLES
    trackers,           \* the tracker list handed to the AnalyzerService
    privacy_impact      \* what analyze_privacy_impact returned for it

VARIABLES
    content,            \* the page handed to the classifier: a list of elements
    page_url,           \* the domain of the page's URL
    detected,           \* what TrackerDatabase.detect_trackers returned for it
    runs                \* the TrackerInfo sets of the classification runs so far

VARIABLES
    db_path,            \* what the file at db_path holds when the database is built
    tracker_db          \* the TrackerDatabase: not built, raised, or running

VARIABLES
    current_results,    \* the ScanResults handed to calculate_privacy_impact_index
    historical_results, \* the optional baseline: whether given, and its results
    privacy_index       \* the PrivacyImpactIndex returned

VARIABLES
    results_by_period,  \* the dict handed to generate_trend_analysis, in insertion order
    trend_analysis      \* the TrendAnalysis returned

VARIABLES
    admissions,         \* ghost: per key and instant, the requests admitted on the key
    lastCheck           \* ghost: the caller's global bucket around the last check_rate_limits

limiterVars ==
    <<buckets, lastLocal, streak, pendingDeny, storeUp, store, redis_client,
      pc, call, bucket, result, crl, granted, avail>>
scanVars ==
    <<urls, scanner, db_enabled, semaphore, task, fate, wake, last_request_time,
      outcome, batch, results>>
analyzerVars == <<trackers, privacy_impact>>
classifierVars == <<content, page_url, detected, runs>>
loaderVars == <<db_path, tracker_db>>
indexVars == <<current_results, historical_results, privacy_index>>
trendVars == <<results_by_period, trend_analysis>>
quotaVars == <<admissions, lastCheck>>
restVars == <<analyzerVars, classifierVars, loaderVars, indexVars, trendVars, quotaVars>>
vars == <<now, limiterVars, scanVars, restVars>>

NoCall == [key |-> GlobalKey(ClientId), tokens |-> 0, allowed |-> FALSE, readAt |-> 0]
NoCrl ==
    [state |-> "none", domain |-> "", global_check |-> NoResult,
     domain_check |-> NoResult, value |-> FALSE]
NoDeny ==
    [present |-> FALSE, tokens |-> 0, at |-> 0, retry_after |-> [num |-> 0, den |-> 1],
     afterBurst |-> FALSE]
\* The dict LocalRateLimiter.check_rate_limit returned, and what preceded the
\* call on its key: afterBurst, capacity-many consecutive admitted 1-token
\* requests at this same instant; afterStreak, capacity-many consecutive
\* admitted 1-token requests that lie, with this one, inside one window;
\* waited, a 1-token request made once the retry_after of the key's latest
\* denial (of a 1-token request, no admission since) has run out ("burst":
\* that denial followed a burst).
NoLocal ==
    [kind |-> "none", key |-> GlobalKey(ClientId), tokens |-> 0, at |-> 0,
     allowed |-> FALSE, remaining |-> 0, retry_after |-> [num |-> 0, den |-> 1],
     afterBurst |-> FALSE, afterStreak |-> FALSE, waited |-> "no"]
\* A run of consecutive admitted 1-token requests on a key: how many (counted
\* up to the capacity), when the first was made, and how many of them were
\* made at the current instant.
NoStreak == [count |-> 0, start |-> 0, burst |-> 0]

\* What GET returns for a key: nothing once the TTL set by SETEX has run out.
StoreGet(key, t) ==
    IF store[key].present /\ t < store[key].expires THEN store[key] ELSE NoBucket

\* Whole tokens a reader arriving at time t finds in the stored bucket.
WholeTokensAt(b, key, t) ==
    IF b.present /\ t < b.expires
    THEN Remaining(Refill(b, t))
    ELSE ConfigOf(key).max_requests

\* The per-instant count of tokens handed out stops one above the capacity.
MaxGranted(key) == ConfigOf(key).max_requests + 1

LimiterState ==
    /\ buckets = [k \in Keys |-> NoBucket]
    /\ lastLocal = NoLocal
    /\ streak = [k \in Keys |-> NoStreak]
    /\ pendingDeny = [k \in Keys |-> NoDeny]
    /\ storeUp = TRUE
    /\ store = [k \in Keys |-> NoBucket]
    /\ redis_client = [p \in Procs |-> FALSE]
    /\ pc = [p \in Procs |-> "idle"]
    /\ call = [p \in Procs |-> NoCall]
    /\ bucket = [p \in Procs |-> NoBucket]
    /\ result = [p \in Procs |-> NoResult]
    /\ crl = [p \in Procs |-> NoCrl]
    /\ granted = [k \in Keys |-> 0]
    /\ avail = [k \in Keys |-> ConfigOf(k).max_requests]

\* No batch scan is running.
ScanIdle ==
    /\ urls = <<>>
    /\ scanner = "basic"
    /\ db_enabled = FALSE
    /\ semaphore = 0
    /\ task = <<>>
    /\ fate = <<>>
    /\ wake = <<>>
    /\ last_request_time = 0
    /\ outcome = <<>>
    /\ batch = "none"
    /\ results = <<>>

\* Nothing has been handed to the analyzer.
NoAnalysis ==
    [kind |-> "none", privacy_score |-> 0, risk_level |-> "low", recommendations |-> 0,
     high_risk_domains |-> 0]
AnalyzerIdle ==
    /\ trackers = <<>>
    /\ privacy_impact = NoAnalysis
\* No page has been given to the classifier.
NoDetection == [kind |-> "none", records |-> <<>>]
ClassifierIdle ==
    /\ content = <<>>
    /\ page_url = <<>>
    /\ detected = NoDetection
    /\ runs = <<>>
\* The database file is absent and no TrackerDatabase has been constructed.
NoFile == [kind |-> "missing", entries |-> <<>>]
NoDatabase == [state |-> "none", trackers |-> <<>>, patterns_compiled |-> <<>>]
LoaderIdle ==
    /\ db_path = NoFile
    /\ tracker_db = NoDatabase
\* historical_results = None, and no index calculated.
NoHistory == [given |-> FALSE, results |-> <<>>]
NoIndex ==
    [kind |-> "none", score |-> [n |-> 0, d |-> 1], risk_category |-> "unknown",
     factors |-> <<>>, trending |-> "stable", compliance_score |-> [n |-> 0, d |-> 1]]
IndexIdle ==
    /\ current_results = <<>>
    /\ historical_results = NoHistory
    /\ privacy_index = NoIndex
\* No trend analysis has been asked for.
NoTrend ==
    [kind |-> "none", privacy_score_trend |-> <<>>, tracker_count_trend |-> <<>>,
     risk_level_distribution |-> [low |-> <<>>, medium |-> <<>>, high |-> <<>>, critical |-> <<>>],
     domain_growth |-> <<>>, timestamps |-> <<>>]
TrendIdle ==
    /\ results_by_period = <<>>
    /\ trend_analysis = NoTrend
\* Nothing admitted, no check_rate_limits made.
NoCheck == [value |-> "none", denied_by |-> "none", global_before |-> 0, global_after |-> 0]
QuotaIdle ==
    /\ admissions = [k \in Keys |-> [t \in 0..MaxTime |-> 0]]
    /\ lastCheck = NoCheck
RestIdle ==
    AnalyzerIdle /\ ClassifierIdle /\ LoaderIdle /\ IndexIdle /\ TrendIdle /\ QuotaIdle

LimiterInit == now = 0 /\ LimiterState /\ ScanIdle /\ RestIdle

localVars == <<buckets, lastLocal, streak, pendingDeny>>
distVars == <<storeUp, store, redis_client, pc, call, bucket, result, crl, granted, avail>>

\* The clock advances; the per-instant bookkeeping starts afresh.
Tick ==
    /\ now < MaxTime
    /\ now' = now + 1
    /\ granted' = [k \in Keys |-> 0]
    /\ avail' = [k \in Keys |-> WholeTokensAt(store[k], k, now + 1)]
    /\ streak' = [k \in Keys |-> [streak[k] EXCEPT !.burst = 0]]
    /\ UNCHANGED <<buckets, lastLocal, pendingDeny, storeUp, store, redis_client, pc,
                   call, bucket, result, crl, scanVars, restVars>>

\* ------------------------------------------- LocalRateLimiter
\* LocalRateLimiter._get_or_create_bucket
GetOrCreateBucket(key, config) ==
    IF buckets[key].present THEN buckets[key] ELSE TokenBucket(config, now)

\* LocalRateLimiter.check_rate_limit(key, config, tokens): what it does to the
\* limiter, and the dict it returns.
LocalCheckStep(key, n) ==
    LET config == ConfigOf(key)
        c == Consume(GetOrCreateBucket(key, config), n, now)
        ra == RetryAfter(n, c.bucket, c.allowed, config)
        afterBurst == n = 1 /\ streak[key].burst >= config.max_requests
        afterStreak ==
            /\ n = 1
            /\ streak[key].count >= config.max_requests
            /\ now - streak[key].start < config.window_seconds
        d == pendingDeny[key]
        waitedOut ==
            /\ n = 1
            /\ d.present
            /\ d.tokens = n
            /\ (now - d.at) * d.retry_after.den >= d.retry_after.num
    IN
    /\ buckets' = [buckets EXCEPT ![key] = c.bucket]
    /\ lastLocal' =
         [kind |-> "returned", key |-> key, tokens |-> n, at |-> now,
          allowed |-> c.allowed, remaining |-> Remaining(c.bucket),
          retry_after |-> ra, afterBurst |-> afterBurst, afterStreak |-> afterStreak,
          waited |-> IF ~waitedOut THEN "no" ELSE IF d.afterBurst THEN "burst" ELSE "yes"]
    /\ streak' =
         [streak EXCEPT ![key] =
            IF c.allowed /\ n = 1
            THEN [count |-> Min(@.count + 1, config.max_requests),
                  start |-> IF @.count = 0 THEN now ELSE @.start,
                  burst |-> Min(@.burst + 1, config.max_requests)]
            ELSE NoStreak]
    /\ pendingDeny' =
         [pendingDeny EXCEPT ![key] =
            IF c.allowed THEN NoDeny
            ELSE [present |-> TRUE, tokens |-> n, at |-> now, retry_after |-> ra,
                  afterBurst |-> afterBurst]]

\* LocalRateLimiter.check_rate_limit is synchronous: one step.
LocalCheck(key, n) ==
    /\ LocalCheckStep(key, n)
    /\ UNCHANGED <<now, distVars, scanVars, restVars>>

LocalNext ==
    \/ Tick
    \/ \E key \in Keys, n \in 1..MaxTokensReq : LocalCheck(key, n)

SpecLocal == LimiterInit /\ [][LocalNext]_vars

\* The token counts a caller may pass: `tokens: int`, which nothing validates.
AnyTokens == (-1)..MaxTokensReq

\* The local limiter asked for any number of tokens (a bucket already above
\* its capacity is not asked for a negative number again).
AnyTokensNext ==
    \/ Tick
    \/ \E key \in Keys, n \in AnyTokens :
         /\ n < 0 => buckets[key].tokens <= ConfigOf(key).max_requests * TokenScale
         /\ LocalCheck(key, n)

SpecAnyTokens == LimiterInit /\ [][AnyTokensNext]_vars

\* ------------------------------------------- DistributedRateLimiter
\* The shared store becomes unreachable, or reachable again.
StoreFails ==
    /\ storeUp
    /\ storeUp' = FALSE
    /\ UNCHANGED <<now, localVars, store, redis_client, pc, call, bucket, result, crl,
                   granted, avail, scanVars, restVars>>

StoreRecovers ==
    /\ ~storeUp
    /\ storeUp' = TRUE
    /\ UNCHANGED <<now, localVars, store, redis_client, pc, call, bucket, result, crl,
                   granted, avail, scanVars, restVars>>

\* check_rate_limit has an outcome r (a dict, or an exception) for caller p.
\* Called directly, that ends the call.  Called from check_rate_limits, the
\* rest of check_rate_limits runs: a denied global check returns False, an
\* admitted one goes on to check_domain_limit, whose answer is returned, and
\* an exception is answered True by the except branch.
Finish(p, r) ==
    /\ result' = [result EXCEPT ![p] = r]
    /\ IF crl[p].state = "global" /\ r.kind = "returned" /\ r.allowed
       THEN /\ crl' = [crl EXCEPT ![p].state = "domain", ![p].global_check = r]
            /\ call' = [call EXCEPT ![p] =
                          [key |-> DomainKey(crl[p].domain, ClientId), tokens |-> 1,
                           allowed |-> FALSE, readAt |-> 0]]
            /\ pc' = [pc EXCEPT ![p] = "get"]
       ELSE /\ pc' = [pc EXCEPT ![p] = "idle"]
            /\ call' = [call EXCEPT ![p] = NoCall]
            /\ crl' = [crl EXCEPT ![p] =
                 IF crl[p].state = "global"
                 THEN [@ EXCEPT !.state = "done", !.global_check = r,
                                !.value = (r.kind = "raised")]
                 ELSE IF crl[p].state = "domain"
                 THEN [@ EXCEPT !.state = "done", !.domain_check = r,
                                !.value = (r.kind = "raised" \/ r.allowed)]
                 ELSE @]

\* check_rate_limit, entry: `if not self.redis_client: await self.initialize()`.
\* initialize builds the client (from_url connects lazily), then pings; a failed
\* ping is logged and re-raised, outside check_rate_limit's try block.
Enter(p, key, n) ==
    /\ redis_client' = [redis_client EXCEPT ![p] = TRUE]
    /\ IF redis_client[p] \/ storeUp
       THEN /\ pc' = [pc EXCEPT ![p] = "get"]
            /\ call' = [call EXCEPT ![p] =
                          [key |-> key, tokens |-> n, allowed |-> FALSE, readAt |-> 0]]
            /\ UNCHANGED result
       ELSE /\ pc' = [pc EXCEPT ![p] = "idle"]
            /\ call' = [call EXCEPT ![p] = NoCall]
            /\ result' = [result EXCEPT ![p] = Raised]

\* A caller starts check_rate_limit(key, ConfigOf(key), n).
StartCheck(p, key, n) ==
    /\ pc[p] = "idle"
    /\ Enter(p, key, n)
    /\ crl' = [crl EXCEPT ![p] = NoCrl]
    /\ UNCHANGED <<now, localVars, storeUp, store, bucket, granted, avail, scanVars, restVars>>

\* A caller starts check_rate_limits(url, client_id, limiter), url on host
\* `domain`: urlparse, then check_global_limit; initialize raising lands in
\* the except branch, which returns True.
StartCheckRateLimits(p, domain) ==
    /\ pc[p] = "idle"
    /\ Enter(p, GlobalKey(ClientId), 1)
    /\ crl' = [crl EXCEPT ![p] =
         IF redis_client[p] \/ storeUp
         THEN [NoCrl EXCEPT !.state = "global", !.domain = domain]
         ELSE [NoCrl EXCEPT !.state = "done", !.domain = domain,
                            !.global_check = Raised, !.value = TRUE]]
    /\ UNCHANGED <<now, localVars, storeUp, store, bucket, granted, avail, scanVars, restVars>>

\* check_rate_limit, lines 147-152: the bucket GET yields, through from_dict,
\* or a new one.
LoadBucket(key, config, t) ==
    LET data == StoreGet(key, t)
    IN IF data.present THEN FromDict(data) ELSE TokenBucket(config, t)

\* check_rate_limit, lines 158-162: what SETEX stores, with its TTL of two windows.
StoredBucket(b, config, t) == [b EXCEPT !.expires = t + config.window_seconds * 2]

\* check_rate_limit, lines 147-155: GET, from_dict or a new bucket, consume.
Get(p) ==
    /\ pc[p] = "get"
    /\ LET key == call[p].key
           n == call[p].tokens
           config == ConfigOf(key)
           b == LoadBucket(key, config, now)
           c == Consume(b, n, now)
       IN
       IF storeUp
       THEN /\ bucket' = [bucket EXCEPT ![p] = c.bucket]
            /\ call' = [call EXCEPT ![p].allowed = c.allowed, ![p].readAt = now]
            /\ pc' = [pc EXCEPT ![p] = "setex"]
            /\ UNCHANGED <<result, crl>>
       ELSE /\ Finish(p, FailOpen(config))
            /\ UNCHANGED bucket
    /\ UNCHANGED <<now, localVars, storeUp, store, redis_client, granted, avail, scanVars, restVars>>

\* check_rate_limit, lines 158-174: SETEX with a TTL of two windows, then the
\* answer computed from the local bucket.
Setex(p) ==
    /\ pc[p] = "setex"
    /\ LET key == call[p].key
           n == call[p].tokens
           config == ConfigOf(key)
       IN
       IF storeUp
       THEN /\ store' = [store EXCEPT ![key] = StoredBucket(bucket[p], config, now)]
            /\ Finish(p, Admission(bucket[p], n, call[p].allowed, config))
            /\ granted' = [granted EXCEPT ![key] =
                 IF call[p].allowed /\ call[p].readAt = now
                 THEN Min(@ + n, MaxGranted(key))
                 ELSE @]
       ELSE /\ Finish(p, FailOpen(config))
            /\ UNCHANGED <<store, granted>>
    /\ bucket' = [bucket EXCEPT ![p] = NoBucket]
    /\ UNCHANGED <<now, localVars, storeUp, redis_client, avail, scanVars, restVars>>

\* Two callers race on the caller's global bucket; the store stays reachable.
RaceNext ==
    \/ Tick
    \/ \E p \in Procs, n \in 1..MaxTokensReq : StartCheck(p, GlobalKey(ClientId), n)
    \/ \E p \in Procs : Get(p)
    \/ \E p \in Procs : Setex(p)

SpecRace == LimiterInit /\ [][RaceNext]_vars

\* One caller works through the store, which stays reachable.
StoreNext ==
    \/ Tick
    \/ \E key \in Keys, n \in 1..MaxTokensReq : StartCheck("p1", key, n)
    \/ Get("p1")
    \/ Setex("p1")

SpecStore == LimiterInit /\ [][StoreNext]_vars

\* One caller, direct checks and check_rate_limits, while the store comes and goes.
FailOpenNext ==
    \/ Tick
    \/ StoreFails
    \/ StoreRecovers
    \/ \E key \in Keys, n \in 1..MaxTokensReq : StartCheck("p1", key, n)
    \/ \E h \in Hosts : StartCheckRateLimits("p1", h)
    \/ Get("p1")
    \/ Setex("p1")

SpecFailOpen == LimiterInit /\ [][FailOpenNext]_vars

\* ------------------------------- the two limiters side by side
\* DistributedRateLimiter.check_rate_limit run from entry to return with the
\* store reachable and nobody else calling: the answer, and the store after it.
CheckThroughStore(st, key, n, t) ==
    LET config == ConfigOf(key)
        data == IF st[key].present /\ t < st[key].expires THEN st[key] ELSE NoBucket
        b == IF data.present THEN FromDict(data) ELSE TokenBucket(config, t)
        c == Consume(b, n, t)
    IN [store |-> [st EXCEPT ![key] = StoredBucket(c.bucket, config, t)],
        result |-> Admission(c.bucket, n, c.allowed, config)]

\* The same check_rate_limit(key, config, n) made now on the local limiter
\* and, by caller p1, on the store-backed limiter.
BothCheck(key, n) ==
    /\ LocalCheckStep(key, n)
    /\ LET d == CheckThroughStore(store, key, n, now)
       IN /\ store' = d.store
          /\ result' = [result EXCEPT !["p1"] = d.result]
    /\ redis_client' = [redis_client EXCEPT !["p1"] = TRUE]
    /\ UNCHANGED <<now, storeUp, pc, call, bucket, crl, granted, avail, scanVars, restVars>>

\* check_rate_limits(url, client_id, rate_limiter) made now with each limiter,
\* url on host `domain`.  Caller p1 passes the store-backed limiter: the
\* global check, then, if it admits, the domain check.  Caller p2 passes the
\* LocalRateLimiter create_rate_limiter returns: it has no check_global_limit,
\* the AttributeError lands in the except branch, the answer is True and no
\* bucket is touched.
BothCheckRateLimits(domain) ==
    LET g == CheckThroughStore(store, GlobalKey(ClientId), 1, now)
        d == CheckThroughStore(g.store, DomainKey(domain, ClientId), 1, now)
    IN
    /\ store' = IF g.result.allowed THEN d.store ELSE g.store
    /\ result' = [result EXCEPT !["p1"] = IF g.result.allowed THEN d.result ELSE g.result]
    /\ redis_client' = [redis_client EXCEPT !["p1"] = TRUE]
    /\ crl' = [crl EXCEPT
                 !["p1"] = [state |-> "done", domain |-> domain, global_check |-> g.result,
                            domain_check |-> IF g.result.allowed THEN d.result ELSE NoResult,
                            value |-> g.result.allowed /\ d.result.allowed],
                 !["p2"] = [state |-> "done", domain |-> domain, global_check |-> Raised,
                            domain_check |-> NoResult, value |-> TRUE]]
    /\ UNCHANGED <<now, localVars, storeUp, pc, call, bucket, granted, avail, scanVars,
                   restVars>>

SideBySideNext ==
    \/ Tick
    \/ \E key \in Keys, n \in 1..MaxTokensReq : BothCheck(key, n)
    \/ \E h \in Hosts : BothCheckRateLimits(h)

SpecSideBySide == LimiterInit /\ [][SideBySideNext]_vars

\* --------------------------------------- admissions over a window
\* One more request admitted on the key at instant t.
Admit(adm, key, t) == [adm EXCEPT ![key][t] = @ + 1]

\* check_rate_limit(key, config, 1) made now on the store-backed limiter by
\* caller p1, the store reachable and nobody else calling.
QuotaCheck(key) ==
    LET d == CheckThroughStore(store, key, 1, now)
    IN
    /\ store' = d.store
    /\ result' = [result EXCEPT !["p1"] = d.result]
    /\ redis_client' = [redis_client EXCEPT !["p1"] = TRUE]
    /\ admissions' = IF d.result.allowed THEN Admit(admissions, key, now) ELSE admissions
    /\ UNCHANGED <<now, localVars, storeUp, pc, call, bucket, crl, granted, avail, scanVars,
                   analyzerVars, classifierVars, loaderVars, indexVars, trendVars, lastCheck>>

\* check_rate_limits(url, client_id, rate_limiter) made now by caller p1 with
\* the store-backed limiter, url on host `domain`: the global check, then, if
\* it admits, the domain check.
QuotaCheckRateLimits(domain) ==
    LET gkey == GlobalKey(ClientId)
        dkey == DomainKey(domain, ClientId)
        g == CheckThroughStore(store, gkey, 1, now)
        d == CheckThroughStore(g.store, dkey, 1, now)
        after == IF g.result.allowed THEN d.store ELSE g.store
        value == g.result.allowed /\ d.result.allowed
    IN
    /\ store' = after
    /\ result' = [result EXCEPT !["p1"] = IF g.result.allowed THEN d.result ELSE g.result]
    /\ redis_client' = [redis_client EXCEPT !["p1"] = TRUE]
    /\ crl' = [crl EXCEPT
                 !["p1"] = [state |-> "done", domain |-> domain, global_check |-> g.result,
                            domain_check |-> IF g.result.allowed THEN d.result ELSE NoResult,
                            value |-> value]]
    /\ admissions' =
           IF ~g.result.allowed THEN admissions
           ELSE IF ~d.result.allowed THEN Admit(admissions, gkey, now)
           ELSE Admit(Admit(admissions, gkey, now), dkey, now)
    /\ lastCheck' =
           [value |-> IF value THEN "true" ELSE "false",
            denied_by |-> IF ~g.result.allowed THEN "global"
                          ELSE IF ~d.result.allowed THEN "domain" ELSE "none",
            global_before |-> Refill(LoadBucket(gkey, global_config, now), now).tokens,
            global_after |-> after[gkey].tokens]
    /\ UNCHANGED <<now, localVars, storeUp, pc, call, bucket, granted, avail, scanVars,
                   analyzerVars, classifierVars, loaderVars, indexVars, trendVars>>

QuotaNext ==
    \/ Tick
    \/ \E key \in Keys : QuotaCheck(key)
    \/ \E h \in Hosts : QuotaCheckRateLimits(h)

SpecQuota == LimiterInit /\ [][QuotaNext]_vars

\* ------------------------------------------------ batch scanner
\* The URL at input position i: two pages of one host, so a list of three
\* names a page twice.
UrlAt(i) == [host |-> "h1", path |-> IF i % 2 = 1 THEN "/a" ELSE "/b"]

\* What parsing a fetched page yields, as the risk levels of the trackers
\* _convert_to_tracker_info builds (pixels medium, external scripts high, meta
\* tags low).
Tracker(risk_level, category) == [risk_level |-> risk_level, category |-> category]
TrackedPage ==
    <<Tracker("medium", "analytics"), Tracker("high", "analytics"),
      Tracker("low", "analytics")>>
Pages == {<<>>, TrackedPage}

NoError == "<None>"
NoFate == [fetch |-> "pending", page |-> <<>>, analysis |-> "pending", storage |-> "pending"]
NoOutcome == [kind |-> "none", value |-> [url |-> UrlAt(1), error |-> NoError,
              trackers |-> <<>>, privacy_score |-> 0, scan_type |-> "basic"]]

\* str(e) of what the fetch raised: asyncio.TimeoutError carries no text.
ErrorMessage(kind) == IF kind = "timeout" THEN "" ELSE kind

\* A penalty that rewards a low-risk tracker.
RewardLowRisk(tracker) ==
    IF tracker.risk_level = "high" THEN HighPenalty
    ELSE IF tracker.risk_level = "medium" THEN MediumPenalty
    ELSE IF tracker.risk_level = "low" THEN 0 - LowPenalty
    ELSE 0

\* AnalyzerService.calculate_privacy_score: what the loop body subtracts for
\* one tracker (nothing for a risk level other than high, medium and low).
RiskPenalty(tracker) ==
    IF tracker.risk_level = "high" THEN HighPenalty
    ELSE IF tracker.risk_level = "medium" THEN MediumPenalty
    ELSE IF tracker.risk_level = "low" THEN LowPenalty
    ELSE 0

RECURSIVE SumPenalties(_)
SumPenalties(ts) ==
    IF ts = <<>> THEN 0
    ELSE RiskPenalty(Head(ts)) + SumPenalties(Tail(ts))

\* A score that is not clamped at 0.
UnclampedScore(ts) == BaseScore - SumPenalties(ts)

calculate_privacy_score(ts) == Max(BaseScore - SumPenalties(ts), 0)

\* sum(1 for t in trackers if t.risk_level == level)
RECURSIVE CountRisk(_, _)
CountRisk(ts, level) ==
    IF ts = <<>> THEN 0
    ELSE (IF Head(ts).risk_level = level THEN 1 ELSE 0) + CountRisk(Tail(ts), level)

\* AnalyzerService.assess_risks: overall_risk
assess_risks(ts) ==
    IF CountRisk(ts, "high") >= HighRiskThreshold THEN "high"
    ELSE IF CountRisk(ts, "medium") >= MediumRiskThreshold THEN "medium"
    ELSE "low"

\* AnalyzerService.analyze_privacy_impact (lists by their lengths)
analyze_privacy_impact(ts) ==
    LET high_risk_domains == CountRisk(ts, "high") + CountRisk(ts, "critical")
    IN [kind |-> "returned",
        privacy_score |-> calculate_privacy_score(ts),
        risk_level |-> assess_risks(ts),
        recommendations |-> IF high_risk_domains > 0 THEN 1 ELSE 0,
        high_risk_domains |-> high_risk_domains]

\* An error result that keeps a perfect score.
ErrorResultWithFullScore(url, error_message) ==
    [url |-> url, error |-> error_message, trackers |-> <<>>,
     privacy_score |-> BaseScore, scan_type |-> "basic"]

\* BasicTrackingScanner._create_error_result
CreateErrorResult(url, error_message) ==
    [url |-> url, error |-> error_message, trackers |-> <<>>, privacy_score |-> 0,
     scan_type |-> "basic"]

\* A scan_url without its except branch: the exception leaves scan_url.
Reraise(url, error_message) ==
    [kind |-> "exception", value |-> CreateErrorResult(url, error_message)]

\* The ScanResult scan_url builds on its normal path (lines 87-121).
CreateScanResult(url, ts) ==
    [url |-> url, error |-> NoError, trackers |-> ts,
     privacy_score |-> calculate_privacy_score(ts), scan_type |-> "basic"]

\* scan_url's `except Exception as e` (lines 130-132): the task's outcome when
\* something inside the try block raised.
OnException(url, error_message) ==
    [kind |-> "result", value |-> CreateErrorResult(url, error_message)]

\* EnhancedTrackingScanner.scan_url, after super().scan_url returned.
EnhancedScanUrl(o) ==
    IF scanner = "enhanced" /\ o.kind = "result"
    THEN [o EXCEPT !.value.scan_type = "enhanced"]
    ELSE o

InFlight == {i \in DOMAIN task : task[i] \in {"sleeping", "request", "storing"}}

\* The fetch, the parsing or analysis, or the storage raised, or the body was empty.
Failed(f) ==
    \/ f.fetch \in {"http_error", "timeout", "empty"}
    \/ f.analysis = "raised"
    \/ f.storage = "raised"

ScanInit ==
    /\ now = rate_limit_delay
    /\ LimiterState
    /\ RestIdle
    /\ \E n \in 0..MaxUrls :
         /\ urls = [i \in 1..n |-> UrlAt(i)]
         /\ task = [i \in 1..n |-> "queued"]
         /\ fate = [i \in 1..n |-> NoFate]
         /\ wake = [i \in 1..n |-> 0]
         /\ outcome = [i \in 1..n |-> NoOutcome]
    /\ scanner \in {"basic", "enhanced"}
    /\ db_enabled \in BOOLEAN
    /\ semaphore = concurrent_requests
    /\ last_request_time = 0
    /\ batch = IF urls = <<>> THEN "running" ELSE "launching"
    /\ results = <<>>

\* Time passes while the batch runs (only as long as it can still make a
\* difference to _enforce_rate_limit: a task has yet to pass it and the last
\* request is less than rate_limit_delay old).
ScanTick ==
    /\ batch = "running"
    /\ \E i \in DOMAIN task : task[i] \in {"queued", "sleeping"}
    /\ now - last_request_time < rate_limit_delay
    /\ now' = now + 1
    /\ UNCHANGED <<limiterVars, scanVars, restVars>>

\* A semaphore that never makes anyone wait.
AlwaysAcquire == TRUE

\* Whether a queued task may enter `async with semaphore`.
MayAcquire == semaphore > 0

\* scan_with_semaphore(urls[i]) gets a slot and runs, without suspending, into
\* scan_url, NetworkService.fetch and _enforce_rate_limit: it sleeps if the
\* last request is less than rate_limit_delay old, else stamps
\* last_request_time and sends the request.  Tasks get their slots in list
\* order (the loop runs the tasks gather created in order, and the semaphore
\* wakes its waiters in order).  The batch is "launching" while the loop gives
\* each new task its first step, before any of them is resumed: until the
\* slots are taken or every task has one.
Start(i) ==
    /\ batch \in {"launching", "running"}
    /\ task[i] = "queued"
    /\ \A j \in DOMAIN task : j < i => task[j] # "queued"
    /\ MayAcquire
    /\ semaphore' = semaphore - 1
    /\ batch' = IF semaphore' = 0 \/ i = Len(urls) THEN "running" ELSE batch
    /\ IF now - last_request_time < rate_limit_delay
       THEN /\ task' = [task EXCEPT ![i] = "sleeping"]
            /\ wake' = [wake EXCEPT ![i] = last_request_time + rate_limit_delay]
            /\ UNCHANGED last_request_time
       ELSE /\ task' = [task EXCEPT ![i] = "request"]
            /\ last_request_time' = now
            /\ UNCHANGED wake
    /\ UNCHANGED <<now, limiterVars, restVars, urls, scanner, db_enabled, fate, outcome, results>>

\* The sleep of _enforce_rate_limit is over: stamp and send the request.
Wake(i) ==
    /\ batch = "running"
    /\ task[i] = "sleeping"
    /\ now >= wake[i]
    /\ task' = [task EXCEPT ![i] = "request"]
    /\ wake' = [wake EXCEPT ![i] = 0]
    /\ last_request_time' = now
    /\ UNCHANGED <<now, limiterVars, restVars, urls, scanner, db_enabled, semaphore, fate, outcome,
                   batch, results>>

\* scan_url is over for position i with outcome o: the semaphore is released
\* and the task is done.
Return(i, o) ==
    /\ outcome' = [outcome EXCEPT ![i] = EnhancedScanUrl(o)]
    /\ semaphore' = semaphore + 1
    /\ task' = [task EXCEPT ![i] = "done"]

\* The request fails: a non-2xx status or a network error (raise_for_status,
\* ClientError), or the total timeout.
FetchFails(i, kind) ==
    /\ batch = "running"
    /\ task[i] = "request"
    /\ fate' = [fate EXCEPT ![i].fetch = kind]
    /\ Return(i, OnException(urls[i], ErrorMessage(kind)))
    /\ UNCHANGED <<now, limiterVars, restVars, urls, scanner, db_enabled, wake, last_request_time,
                   batch, results>>

\* The request succeeds with an empty body: `if not content`.
FetchEmpty(i) ==
    /\ batch = "running"
    /\ task[i] = "request"
    /\ fate' = [fate EXCEPT ![i].fetch = "empty"]
    /\ Return(i, [kind |-> "result",
                  value |-> CreateErrorResult(urls[i], "Failed to fetch content")])
    /\ UNCHANGED <<now, limiterVars, restVars, urls, scanner, db_enabled, wake, last_request_time,
                   batch, results>>

\* The request succeeds: parse, convert, analyse (either may raise), build the
\* result; with the database enabled, await storage.store_result.
FetchOk(i, page, analysis) ==
    /\ batch = "running"
    /\ task[i] = "request"
    /\ fate' = [fate EXCEPT ![i].fetch = "ok", ![i].analysis = analysis,
                             ![i].page = IF analysis = "ok" THEN page ELSE <<>>]
    /\ IF analysis = "raised"
       THEN Return(i, OnException(urls[i], "analysis failed"))
       ELSE IF db_enabled
       THEN /\ task' = [task EXCEPT ![i] = "storing"]
            /\ UNCHANGED <<outcome, semaphore>>
       ELSE Return(i, [kind |-> "result", value |-> CreateScanResult(urls[i], page)])
    /\ UNCHANGED <<now, limiterVars, restVars, urls, scanner, db_enabled, wake, last_request_time,
                   batch, results>>

\* storage.store_result is over: it stored, or failed and said so (the
\* StorageService logs and returns False, which scan_url ignores), or, for an
\* injected Storage, raised.
StoreDone(i, how) ==
    /\ batch = "running"
    /\ task[i] = "storing"
    /\ fate' = [fate EXCEPT ![i].storage = how]
    /\ IF how = "raised"
       THEN Return(i, OnException(urls[i], "storage failed"))
       ELSE Return(i, [kind |-> "result",
                       value |-> CreateScanResult(urls[i], fate[i].page)])
    /\ UNCHANGED <<now, limiterVars, restVars, urls, scanner, db_enabled, wake, last_request_time,
                   batch, results>>

\* A collection loop that leaves failed scans out.
RECURSIVE SuccessfulResults(_, _)
SuccessfulResults(us, os) ==
    IF os = <<>> THEN <<>>
    ELSE (IF Head(os).kind = "exception" \/ Head(os).value.error # NoError
          THEN <<>>
          ELSE <<Head(os).value>>) \o SuccessfulResults(Tail(us), Tail(os))

\* scan_multiple_urls, lines 157-164: what gather returned, in task order, an
\* exception replaced by an error result.
RECURSIVE ValidResults(_, _)
ValidResults(us, os) ==
    IF os = <<>> THEN <<>>
    ELSE <<IF Head(os).kind = "exception"
           THEN CreateErrorResult(Head(us), Head(os).value.error)
           ELSE Head(os).value>> \o ValidResults(Tail(us), Tail(os))

\* gather is over once every task is: scan_multiple_urls returns.
Collect ==
    /\ batch = "running"
    /\ \A i \in DOMAIN task : task[i] = "done"
    /\ results' = ValidResults(urls, outcome)
    /\ batch' = "returned"
    /\ UNCHANGED <<now, limiterVars, restVars, urls, scanner, db_enabled, semaphore, task, fate,
                   wake, last_request_time, outcome>>

ScanStep(i) ==
    \/ Start(i)
    \/ Wake(i)
    \/ \E kind \in {"http_error", "timeout"} : FetchFails(i, kind)
    \/ FetchEmpty(i)
    \/ \E page \in Pages, analysis \in {"ok", "raised"} : FetchOk(i, page, analysis)
    \/ \E how \in {"stored", "failed", "raised"} : StoreDone(i, how)

ScanNext ==
    \/ ScanTick
    \/ \E i \in DOMAIN task : ScanStep(i)
    \/ Collect

SpecScan == ScanInit /\ [][ScanNext]_vars

\* The caller cancels the task awaiting scan_multiple_urls, or a timeout put
\* around the whole batch (asyncio.wait_for) does, while gather is pending:
\* gather cancels its children, so requests, sleeps and writes in progress
\* are abandoned and their slots released, and tasks waiting for a slot never
\* start.  CancelledError is no Exception: neither scan_url's except branch
\* nor anything in scan_multiple_urls catches it, so it leaves
\* scan_multiple_urls, which returns nothing.
Cancel ==
    /\ batch = "running"
    /\ \E i \in DOMAIN task : task[i] # "done"
    /\ task' = [i \in DOMAIN task |-> IF task[i] = "done" THEN "done" ELSE "cancelled"]
    /\ semaphore' = semaphore + Cardinality(InFlight)
    /\ wake' = [i \in DOMAIN wake |-> 0]
    /\ batch' = "cancelled"
    /\ UNCHANGED <<now, limiterVars, restVars, urls, scanner, db_enabled, fate,
                   last_request_time, outcome, results>>

CancelNext ==
    \/ ScanNext
    \/ Cancel

SpecCancel == ScanInit /\ [][CancelNext]_vars

\* A batch of the basic scanner with the database enabled, in which a request
\* times out or brings a page with trackers, and storing works or raises.
BatchStep(i) ==
    \/ Start(i)
    \/ Wake(i)
    \/ FetchFails(i, "timeout")
    \/ FetchOk(i, TrackedPage, "ok")
    \/ \E how \in {"stored", "raised"} : StoreDone(i, how)

BatchNext ==
    \/ ScanTick
    \/ \E i \in DOMAIN task : BatchStep(i)
    \/ Collect

BatchInit == ScanInit /\ scanner = "basic" /\ db_enabled = TRUE

\* The event loop runs every task that can run, the clock runs, and every
\* request and every write ends (the session has a total timeout).
SpecBatchFair ==
    /\ BatchInit
    /\ [][BatchNext]_vars
    /\ WF_vars(ScanTick)
    /\ WF_vars(Collect)
    /\ \A i \in 1..MaxUrls : WF_vars(i \in DOMAIN task /\ BatchStep(i))

\* ------------------------------------------------------ analyzer
\* The trackers a list is built from: every risk level, and for a high-risk
\* tracker a second category.
TrackerKinds ==
    {Tracker(r, "analytics") : r \in {"low", "medium", "high", "critical"}}
        \cup {Tracker("high", "advertising")}

\* A scan finds one more tracker.
AddTracker(t) ==
    /\ Len(trackers) < MaxTrackers
    /\ trackers' = Append(trackers, t)
    /\ privacy_impact' = NoAnalysis
    /\ UNCHANGED <<now, limiterVars, scanVars, classifierVars, loaderVars, indexVars, trendVars, quotaVars>>

\* analyzer.analyze_privacy_impact(trackers)
Analyze ==
    /\ privacy_impact.kind = "none"
    /\ privacy_impact' = analyze_privacy_impact(trackers)
    /\ UNCHANGED <<now, limiterVars, scanVars, classifierVars, loaderVars, indexVars, trendVars, quotaVars, trackers>>

AnalyzerNext ==
    \/ \E t \in TrackerKinds : AddTracker(t)
    \/ Analyze

SpecAnalyzer == LimiterInit /\ [][AnalyzerNext]_vars

\* ------------------------------- the standalone enhanced scanner
\* EnhancedTrackingScanner of enhanced_tracking_scanner.py (and its copy in
\* pixeltracker/scanner.py): its own fetch, detection, score and batch loop,
\* no NetworkService and no storage.
StandalonePages ==
    {<<>>, <<Tracker("high", "privacy_invasion"), Tracker("medium", "analytics")>>}

\* EnhancedTrackingScanner.calculate_privacy_score (lines 522-541)
StandalonePenalty(tracker) ==
    (IF tracker.risk_level = "high" THEN 15
     ELSE IF tracker.risk_level = "medium" THEN 8
     ELSE IF tracker.risk_level = "low" THEN 3 ELSE 0)
    + (IF tracker.category \in {"advertising", "social_advertising"} THEN 10
       ELSE IF tracker.category = "privacy_invasion" THEN 20 ELSE 0)
StandaloneScore(ts) ==
    Max(0, 100 - SumOver([i \in DOMAIN ts |-> StandalonePenalty(ts[i])], DOMAIN ts))

\* The ScanResult of scan_url_comprehensive; `error` is
\* performance_metrics['error'], set by fetch_with_performance_metrics when
\* the request failed.
StandaloneResult(url, error_message, ts) ==
    [url |-> url, error |-> error_message, trackers |-> ts,
     privacy_score |-> StandaloneScore(ts), scan_type |-> "standalone"]

StandaloneInit ==
    /\ now = 0
    /\ LimiterState
    /\ RestIdle
    /\ \E n \in 0..MaxUrls :
         /\ urls = [i \in 1..n |-> UrlAt(i)]
         /\ task = [i \in 1..n |-> "queued"]
         /\ fate = [i \in 1..n |-> NoFate]
         /\ wake = [i \in 1..n |-> 0]
         /\ outcome = [i \in 1..n |-> NoOutcome]
    /\ scanner = "standalone"
    /\ db_enabled = FALSE
    /\ semaphore = concurrent_requests
    /\ last_request_time = 0
    /\ batch = IF urls = <<>> THEN "running" ELSE "launching"
    /\ results = <<>>

\* scan_with_semaphore(urls[i]) gets a slot and runs into
\* scan_url_comprehensive and session.get; slots go in list order.
StandaloneStart(i) ==
    /\ batch \in {"launching", "running"}
    /\ task[i] = "queued"
    /\ \A j \in DOMAIN task : j < i => task[j] # "queued"
    /\ semaphore > 0
    /\ semaphore' = semaphore - 1
    /\ batch' = IF semaphore' = 0 \/ i = Len(urls) THEN "running" ELSE batch
    /\ task' = [task EXCEPT ![i] = "request"]
    /\ UNCHANGED <<now, limiterVars, restVars, urls, scanner, db_enabled, fate, wake,
                   last_request_time, outcome, results>>

\* scan_url_comprehensive is over for position i with outcome o.
StandaloneReturn(i, o) ==
    /\ outcome' = [outcome EXCEPT ![i] = o]
    /\ semaphore' = semaphore + 1
    /\ task' = [task EXCEPT ![i] = "done"]

\* The request fails: fetch_with_performance_metrics catches the exception and
\* returns empty content with metrics {'error': str(e)}; detection finds
\* nothing in it and the result is built.
StandaloneFetchFails(i, kind) ==
    /\ batch = "running"
    /\ task[i] = "request"
    /\ fate' = [fate EXCEPT ![i].fetch = kind]
    /\ StandaloneReturn(i, [kind |-> "result",
                            value |-> StandaloneResult(urls[i], kind, <<>>)])
    /\ UNCHANGED <<now, limiterVars, restVars, urls, scanner, db_enabled, wake,
                   last_request_time, batch, results>>

\* The request succeeds.  Detection runs on the page; it raises on a page it
\* cannot take (urlparse of a script's src raises ValueError on a malformed
\* host) and the exception leaves scan_url_comprehensive, which catches nothing.
StandaloneFetchOk(i, page, detection) ==
    /\ batch = "running"
    /\ task[i] = "request"
    /\ fate' = [fate EXCEPT ![i].fetch = "ok", ![i].analysis = detection,
                             ![i].page = IF detection = "ok" THEN page ELSE <<>>]
    /\ IF detection = "raised"
       THEN StandaloneReturn(i, [kind |-> "exception",
                                 value |-> StandaloneResult(urls[i], "detection failed", <<>>)])
       ELSE StandaloneReturn(i, [kind |-> "result",
                                 value |-> StandaloneResult(urls[i], NoError, page)])
    /\ UNCHANGED <<now, limiterVars, restVars, urls, scanner, db_enabled, wake,
                   last_request_time, batch, results>>

\* EnhancedTrackingScanner.scan_multiple_urls, the loop after gather: an
\* exception is logged, anything else is appended.
RECURSIVE StandaloneValidResults(_)
StandaloneValidResults(os) ==
    IF os = <<>> THEN <<>>
    ELSE (IF Head(os).kind = "exception" THEN <<>> ELSE <<Head(os).value>>)
         \o StandaloneValidResults(Tail(os))

StandaloneCollect ==
    /\ batch = "running"
    /\ \A i \in DOMAIN task : task[i] = "done"
    /\ results' = StandaloneValidResults(outcome)
    /\ batch' = "returned"
    /\ UNCHANGED <<now, limiterVars, restVars, urls, scanner, db_enabled, semaphore, task, fate,
                   wake, last_request_time, outcome>>

StandaloneStep(i) ==
    \/ StandaloneStart(i)
    \/ \E kind \in {"http_error", "timeout"} : StandaloneFetchFails(i, kind)
    \/ \E page \in StandalonePages, detection \in {"ok", "raised"} :
           StandaloneFetchOk(i, page, detection)

StandaloneNext ==
    \/ \E i \in DOMAIN task : StandaloneStep(i)
    \/ StandaloneCollect

SpecStandalone == StandaloneInit /\ [][StandaloneNext]_vars

\* ---------------------------------------------------- classifier
\* Text is a sequence of characters.  `needle in hay`, and the search of a
\* compiled pattern that is a literal.
Contains(hay, needle) ==
    \E k \in 0..(Len(hay) - Len(needle)) : SubSeq(hay, k + 1, k + Len(needle)) = needle

\* The elements a page is made of: an image (a 1x1 pixel or not) with its
\* src, a script with its src or its inline code, a verification meta tag.
Element(tag, src, inline, pixel) ==
    [tag |-> tag, src |-> src, inline |-> inline, pixel |-> pixel]
Elements ==
    {Element("img", <<"a", "d">>, <<>>, TRUE),
     Element("img", <<"b", "a", "d">>, <<>>, FALSE),
     Element("script", <<"s", "o">>, <<>>, FALSE),
     Element("script", <<>>, <<"p", "x">>, FALSE),
     Element("meta", <<>>, <<>>, FALSE)}
UrlDomains == {<<"a", "d">>, <<"b", "a", "d">>, <<"s", "o">>, <<"o", "k">>}

\* `needle in content`: the page's text holds it inside some element.
InContent(c, needle) ==
    \E i \in DOMAIN c : Contains(c[i].src, needle) \/ Contains(c[i].inline, needle)

\* The tracker database: signatures in the dict's order, each with its
\* patterns and its domains.  Both signatures carry the pattern "px".
SignatureIds == <<"ads", "social">>
Signature(id) ==
    IF id = "ads"
    THEN [patterns |-> <<<<"p", "x">>>>, domains |-> <<<<"a", "d">>>>]
    ELSE [patterns |-> <<<<"p", "x">>, <<"f", "b">>>>, domains |-> <<<<"s", "o">>>>]

\* detect_trackers, lines 69-83: the matches of one signature, regex matches
\* first, then domain matches (`domain in content or domain in url`).
MatchesOf(id, c, u) ==
    LET RegexMatch(pattern) == InContent(c, pattern)
        DomainMatch(domain) == InContent(c, domain) \/ Contains(u, domain)
        Regex(pattern) == [pattern |-> pattern, type |-> "regex_match"]
        Domain(domain) == [pattern |-> domain, type |-> "domain_match"]
        rs == SelectSeq(Signature(id).patterns, RegexMatch)
        ds == SelectSeq(Signature(id).domains, DomainMatch)
    IN [i \in 1..Len(rs) |-> Regex(rs[i])] \o [i \in 1..Len(ds) |-> Domain(ds[i])]

\* TrackerDatabase.detect_trackers: one record per signature with matches.
RECURSIVE DetectFrom(_, _, _)
DetectFrom(ids, c, u) ==
    IF ids = <<>> THEN <<>>
    ELSE LET matches == MatchesOf(Head(ids), c, u)
         IN (IF matches # <<>>
             THEN <<[tracker_id |-> Head(ids), matches |-> matches]>>
             ELSE <<>>) \o DetectFrom(Tail(ids), c, u)

detect_trackers(c, u) == DetectFrom(SignatureIds, c, u)

\* HTMLParserService: its own list of tracking domains and of inline patterns.
tracking_domains == {<<"a", "d">>, <<"s", "o">>}
tracking_patterns == {<<"p", "x">>}

\* HTMLParserService.find_tracking_pixels, find_javascript_trackers and
\* find_meta_trackers, and what _convert_to_tracker_info makes of each find,
\* stamped with the time of the run (first_seen = datetime.now()).
TrackerInfo(tracker_type, domain, source, risk_level, t) ==
    [tracker_type |-> tracker_type, domain |-> domain, source |-> source,
     category |-> "analytics", risk_level |-> risk_level, first_seen |-> t]

IsPixel(e) ==
    e.tag = "img" /\ (e.pixel \/ \E d \in tracking_domains : Contains(e.src, d))
IsExternalScript(e) ==
    e.tag = "script" /\ \E d \in tracking_domains : Contains(e.src, d)
IsInlineScript(e) ==
    e.tag = "script" /\ \E q \in tracking_patterns : Contains(e.inline, q)

ConvertToTrackerInfo(c, u, t) ==
    {TrackerInfo("tracking_pixel", c[i].src, c[i].src, "medium", t) :
        i \in {j \in DOMAIN c : IsPixel(c[j])}}
    \cup {TrackerInfo("javascript_tracker", c[i].src, c[i].src, "high", t) :
        i \in {j \in DOMAIN c : IsExternalScript(c[j])}}
    \cup {TrackerInfo("javascript_tracker", <<>>, <<>>, "medium", t) :
        i \in {j \in DOMAIN c : IsInlineScript(c[j])}}
    \cup {TrackerInfo("meta_tracker", u, <<>>, "low", t) :
        i \in {j \in DOMAIN c : c[j].tag = "meta"}}

\* A page and its URL arrive.
ClassifierInit ==
    /\ now = 0
    /\ LimiterState
    /\ ScanIdle
    /\ AnalyzerIdle
    /\ LoaderIdle
    /\ IndexIdle
    /\ TrendIdle
    /\ QuotaIdle
    /\ \E n \in 0..MaxElements : content \in [1..n -> Elements]
    /\ page_url \in UrlDomains
    /\ detected = NoDetection
    /\ runs = <<>>

\* tracker_db.detect_trackers(content, url)
Detect ==
    /\ detected.kind = "none"
    /\ detected' = [kind |-> "returned", records |-> detect_trackers(content, page_url)]
    /\ UNCHANGED <<now, limiterVars, scanVars, analyzerVars, loaderVars, indexVars, trendVars, quotaVars, content, page_url, runs>>

\* The page is classified (parsed, the finds converted), up to twice.
Classify ==
    /\ Len(runs) < 2
    /\ runs' = Append(runs, ConvertToTrackerInfo(content, page_url, now))
    /\ UNCHANGED <<now, limiterVars, scanVars, analyzerVars, loaderVars, indexVars, trendVars, quotaVars, content, page_url, detected>>

ClassifierNext ==
    \/ Tick
    \/ Detect
    \/ Classify

SpecClassifier == ClassifierInit /\ [][ClassifierNext]_vars

\* -------------------------------------------------------- loading
\* What one entry of the database file can be: a well-formed signature, one
\* whose fields are not those of TrackerPattern (TrackerPattern(**data) raises
\* TypeError), or one with a pattern that is not a regular expression
\* (re.compile raises re.error).
EntryKinds == {"ok", "bad_fields", "bad_regex"}

\* The file: absent, not JSON, or a JSON object of entries in order.
JsonFile(entries) == [kind |-> "json", entries |-> entries]
DbFiles ==
    {NoFile, [kind |-> "undecodable", entries |-> <<>>]}
    \cup UNION {{JsonFile(es) : es \in [1..n -> EntryKinds]} : n \in 0..MaxSignatures}

\* load_tracker_database: the entries are constructed in order; the first
\* exception ends the loop and is printed as a warning, and the signatures
\* constructed until then stay in self.trackers.
RECURSIVE LoadFrom(_, _)
LoadFrom(entries, i) ==
    IF i > Len(entries) \/ entries[i] = "bad_fields" THEN <<>>
    ELSE <<i>> \o LoadFrom(entries, i + 1)

load_tracker_database(file) ==
    IF file.kind = "json" THEN LoadFrom(file.entries, 1) ELSE <<>>

\* compile_patterns: every loaded signature's patterns are compiled; the
\* exception of re.compile is not caught.
CompileRaises(file, loaded) ==
    \E k \in DOMAIN loaded : file.entries[loaded[k]] = "bad_regex"

\* TrackerDatabase.__init__
TrackerDatabaseInit(file) ==
    LET loaded == load_tracker_database(file)
    IN IF CompileRaises(file, loaded)
       THEN [state |-> "raised", trackers |-> loaded, patterns_compiled |-> <<>>]
       ELSE [state |-> "running", trackers |-> loaded, patterns_compiled |-> loaded]

LoaderInit ==
    /\ now = 0
    /\ LimiterState
    /\ ScanIdle
    /\ AnalyzerIdle
    /\ ClassifierIdle
    /\ IndexIdle
    /\ TrendIdle
    /\ QuotaIdle
    /\ db_path \in DbFiles
    /\ tracker_db = NoDatabase

\* tracker_db = TrackerDatabase()
Construct ==
    /\ tracker_db.state = "none"
    /\ tracker_db' = TrackerDatabaseInit(db_path)
    /\ UNCHANGED <<now, limiterVars, scanVars, analyzerVars, classifierVars, indexVars, trendVars, quotaVars, db_path>>

LoaderNext == Construct

SpecLoader == LoaderInit /\ [][LoaderNext]_vars

\* ------------------------------------------------------ reporting
\* The factors and the score are floats in the code; here they are exact
\* fractions n/d in lowest terms with d > 0.
RECURSIVE GCD(_, _)
GCD(a, b) == IF b = 0 THEN a ELSE GCD(b, a % b)
Abs(x) == IF x < 0 THEN -x ELSE x
Frac(n, d) ==
    LET g == GCD(Abs(n), d) IN [n |-> n \div g, d |-> d \div g]
Whole(k) == [n |-> k, d |-> 1]
FracAdd(a, b) == Frac(a.n * b.d + b.n * a.d, a.d * b.d)
FracScale(k, a, m) == Frac(k * a.n, a.d * m)         \* a * k / m
FracLess(a, b) == a.n * b.d < b.n * a.d
FracLeq(a, b) == a.n * b.d <= b.n * a.d
\* max(0, min(100, a))
Clamp100(a) ==
    IF FracLess(a, Whole(0)) THEN Whole(0)
    ELSE IF FracLess(Whole(100), a) THEN Whole(100) ELSE a
\* round(a, 2) for a >= 0: the nearest hundredth, a tie going to the even one.
Round2(a) ==
    LET q == (a.n * 100) \div a.d
        r == (a.n * 100) % a.d
        up == 2 * r > a.d \/ (2 * r = a.d /\ q % 2 = 1)
    IN Frac(IF up THEN q + 1 ELSE q, 100)

\* A ScanResult as the reporter reads it: its url's host and its trackers.
ScanResult(url, ts) == [url |-> url, trackers |-> ts]
\* TrackerInfo as the reporter reads it.
IndexTracker(domain, risk_level, category) ==
    [domain |-> domain, risk_level |-> risk_level, category |-> category]
IndexTrackers ==
    {IndexTracker("site", "low", "analytics"),
     IndexTracker("cdn", "medium", "analytics"),
     IndexTracker("ads", "high", "advertising"),
     IndexTracker("ads", "critical", "advertising")}
ScanResults ==
    UNION {{ScanResult("site", ts) : ts \in [1..n -> IndexTrackers]} :
               n \in 0..MaxResultTrackers}

\* sum(len(result.trackers) for result in results)
TotalTrackers(rs) == SumOver([i \in DOMAIN rs |-> Len(rs[i].trackers)], DOMAIN rs)
\* ScanResult.unique_domains and categories_detected, united over the results.
AllDomains(rs) ==
    {rs[i].trackers[j].domain : <<i, j>> \in
        {<<i, j>> \in (DOMAIN rs) \X (1..MaxResultTrackers + 1) : j <= Len(rs[i].trackers)}}
AllCategories(rs) ==
    {rs[i].trackers[j].category : <<i, j>> \in
        {<<i, j>> \in (DOMAIN rs) \X (1..MaxResultTrackers + 1) : j <= Len(rs[i].trackers)}}
SourceDomains(rs) == {rs[i].url : i \in DOMAIN rs}

risk_weights == [low |-> 1, medium |-> 3, high |-> 7, critical |-> 10]
TotalRiskScore(rs) ==
    SumOver([i \in DOMAIN rs |->
                SumOver([j \in DOMAIN rs[i].trackers |-> risk_weights[rs[i].trackers[j].risk_level]],
                        DOMAIN rs[i].trackers)],
            DOMAIN rs)

\* len(TrackerCategory)
total_possible_categories == 10

\* The five factors, each for a non-empty list of results.
calculate_tracker_density(rs) ==
    Clamp100(FracAdd(Whole(100), Frac(-(100 * TotalTrackers(rs)), 20 * Len(rs))))
calculate_risk_severity(rs) ==
    IF TotalTrackers(rs) = 0 THEN Whole(100)
    ELSE Clamp100(FracAdd(Whole(100), Frac(-(100 * TotalRiskScore(rs)), 10 * TotalTrackers(rs))))
calculate_domain_diversity(rs) ==
    IF TotalTrackers(rs) = 0 THEN Whole(100)
    ELSE Clamp100(Frac(100 * Cardinality(AllDomains(rs)), TotalTrackers(rs)))
calculate_category_spread(rs) ==
    Clamp100(FracAdd(Whole(100),
                     Frac(-(100 * Cardinality(AllCategories(rs))), total_possible_categories)))
calculate_third_party_exposure(rs) ==
    IF AllDomains(rs) = {} THEN Whole(100)
    ELSE Clamp100(FracAdd(Whole(100),
                          Frac(-(100 * Cardinality(AllDomains(rs) \ SourceDomains(rs))),
                               Cardinality(AllDomains(rs)))))

FactorNames ==
    {"tracker_density", "risk_severity", "domain_diversity", "category_spread",
     "third_party_exposure"}
Factors(rs) ==
    [f \in FactorNames |->
        CASE f = "tracker_density" -> calculate_tracker_density(rs)
          [] f = "risk_severity" -> calculate_risk_severity(rs)
          [] f = "domain_diversity" -> calculate_domain_diversity(rs)
          [] f = "category_spread" -> calculate_category_spread(rs)
          [] f = "third_party_exposure" -> calculate_third_party_exposure(rs)]
\* The weights, in hundredths.
weights ==
    [tracker_density |-> 25, risk_severity |-> 30, domain_diversity |-> 20,
     category_spread |-> 15, third_party_exposure |-> 10]

\* The weighted sum, normalised to 0-100 (lines 186-187).
WeightedScore(rs) ==
    LET fs == Factors(rs)
        W(f) == FracScale(weights[f], fs[f], 100)
    IN Clamp100(FracAdd(W("tracker_density"),
                FracAdd(W("risk_severity"),
                FracAdd(W("domain_diversity"),
                FracAdd(W("category_spread"), W("third_party_exposure"))))))

RiskCategory(score) ==
    IF FracLeq(Whole(80), score) THEN "low"
    ELSE IF FracLeq(Whole(60), score) THEN "medium"
    ELSE IF FracLeq(Whole(40), score) THEN "high"
    ELSE "critical"

\* The delta of the trend comparison (lines 203 and 205).
TrendDelta == 5

\* The score field of the index of a list of results (no baseline needed).
IndexScore(rs) == IF rs = <<>> THEN Whole(0) ELSE Round2(WeightedScore(rs))

Trending(score, history) ==
    IF history.given /\ history.results # <<>>
    THEN LET historical == IndexScore(history.results)
         IN IF FracLess(FracAdd(historical, Whole(TrendDelta)), score) THEN "improving"
            ELSE IF FracLess(score, FracAdd(historical, Whole(-TrendDelta))) THEN "degrading"
            ELSE "stable"
    ELSE "stable"

\* AdvancedReporterService.calculate_privacy_impact_index
calculate_privacy_impact_index(rs, history) ==
    IF rs = <<>>
    THEN [kind |-> "returned", score |-> Whole(0), risk_category |-> "unknown",
          factors |-> <<>>, trending |-> "stable", compliance_score |-> Whole(0)]
    ELSE LET score == WeightedScore(rs)
             compliance == IF FracLess(Whole(100), FracAdd(score, Whole(10)))
                           THEN Whole(100) ELSE FracAdd(score, Whole(10))
         IN [kind |-> "returned", score |-> Round2(score),
             risk_category |-> RiskCategory(score), factors |-> Factors(rs),
             trending |-> Trending(score, history),
             compliance_score |-> Round2(compliance)]

Histories ==
    {NoHistory} \cup
    UNION {{[given |-> TRUE, results |-> rs] : rs \in [1..n -> ScanResults]} :
               n \in 0..MaxHistorical}

IndexInit ==
    /\ now = 0
    /\ LimiterState
    /\ ScanIdle
    /\ AnalyzerIdle
    /\ ClassifierIdle
    /\ LoaderIdle
    /\ TrendIdle
    /\ QuotaIdle
    /\ \E n \in 0..MaxResults : current_results \in [1..n -> ScanResults]
    /\ historical_results \in Histories
    /\ privacy_index = NoIndex

\* reporter.calculate_privacy_impact_index(current_results, historical_results)
CalculateIndex ==
    /\ privacy_index.kind = "none"
    /\ privacy_index' = calculate_privacy_impact_index(current_results, historical_results)
    /\ UNCHANGED <<now, limiterVars, scanVars, analyzerVars, classifierVars, loaderVars,
                   trendVars, quotaVars, current_results, historical_results>>

IndexNext == CalculateIndex

SpecIndex == IndexInit /\ [][IndexNext]_vars

\* ---------------------------------------------------------- trends
\* A ScanResult as generate_trend_analysis reads it: the privacy score and
\* the risk level of its privacy analysis, its trackers' count and domains.
TrendResult(privacy_score, risk_level, tracker_count, unique_domains) ==
    [privacy_score |-> privacy_score, risk_level |-> risk_level,
     tracker_count |-> tracker_count, unique_domains |-> unique_domains]
TrendResults ==
    {TrendResult(100, "low", 0, {}),
     TrendResult(70, "high", 2, {"ads", "cdn"})}

\* The period labels; their order stands for the order of the label strings.
Periods == 1..MaxPeriods
PeriodLists == UNION {[1..n -> TrendResults] : n \in 0..MaxPeriodResults}
\* The dicts: entries with distinct labels, in any insertion order.
ResultsByPeriod ==
    UNION {{d \in [1..n -> [timestamp : Periods, results : PeriodLists]] :
                \A i, j \in 1..n : i # j => d[i].timestamp # d[j].timestamp} :
               n \in 0..MaxPeriods}

PeriodKeys(d) == [i \in DOMAIN d |-> d[i].timestamp]
\* results_by_period[timestamp]
PeriodResults(d, timestamp) ==
    d[CHOOSE i \in DOMAIN d : d[i].timestamp = timestamp].results
Before(a, b) == a < b
NonEmptyPeriods(d) ==
    LET HasResults(timestamp) == PeriodResults(d, timestamp) # <<>>
    IN SelectSeq(SortSeq(PeriodKeys(d), Before), HasResults)

\* The values appended for one period (lines 234-263).
AvgPrivacyScore(rs) ==
    IF rs = <<>> THEN Whole(0)
    ELSE Round2(Frac(SumOver([i \in DOMAIN rs |-> rs[i].privacy_score], DOMAIN rs), Len(rs)))
PeriodTrackers(rs) == SumOver([i \in DOMAIN rs |-> rs[i].tracker_count], DOMAIN rs)
PeriodRiskCount(rs, level) == Cardinality({i \in DOMAIN rs : rs[i].risk_level = level})
PeriodDomains(rs) == Cardinality(UNION {rs[i].unique_domains : i \in DOMAIN rs})

\* The series over the given periods, labelled with the given timestamps.
TrendOver(d, periods, timestamps) ==
    LET At(k) == PeriodResults(d, periods[k])
        Series(Value(_)) == [k \in 1..Len(periods) |-> Value(At(k))]
        Low(rs) == PeriodRiskCount(rs, "low")
        Medium(rs) == PeriodRiskCount(rs, "medium")
        High(rs) == PeriodRiskCount(rs, "high")
        Critical(rs) == PeriodRiskCount(rs, "critical")
    IN [kind |-> "returned",
        privacy_score_trend |-> Series(AvgPrivacyScore),
        tracker_count_trend |-> Series(PeriodTrackers),
        risk_level_distribution |->
            [low |-> Series(Low), medium |-> Series(Medium),
             high |-> Series(High), critical |-> Series(Critical)],
        domain_growth |-> Series(PeriodDomains),
        timestamps |-> timestamps]

\* A variant that appends nothing for a period without results.
TrendOmittingEmptyPeriods(d) ==
    TrendOver(d, NonEmptyPeriods(d), SortSeq(PeriodKeys(d), Before))

\* AdvancedReporterService.generate_trend_analysis
generate_trend_analysis(d) ==
    TrendOver(d, SortSeq(PeriodKeys(d), Before), SortSeq(PeriodKeys(d), Before))

TrendInit ==
    /\ now = 0
    /\ LimiterState
    /\ ScanIdle
    /\ AnalyzerIdle
    /\ ClassifierIdle
    /\ LoaderIdle
    /\ IndexIdle
    /\ QuotaIdle
    /\ results_by_period \in ResultsByPeriod
    /\ trend_analysis = NoTrend

\* reporter.generate_trend_analysis(results_by_period)
GenerateTrend ==
    /\ trend_analysis.kind = "none"
    /\ trend_analysis' = generate_trend_analysis(results_by_period)
    /\ UNCHANGED <<now, limiterVars, scanVars, analyzerVars, classifierVars, loaderVars,
                   indexVars, quotaVars, results_by_period>>

TrendNext == GenerateTrend

SpecTrend == TrendInit /\ [][TrendNext]_vars

\* ------------------------------------------------------------ claims
\* C1: concurrent check_rate_limit calls on one key update the bucket as one
\* atomic read-modify-write: the tokens handed out by the calls that read the
\* bucket at one instant never exceed the whole tokens the stored bucket held
\* when that instant began (no two callers are admitted on the same token).
C1_NoDoubleAdmission ==
    \A k \in Keys : granted[k] <= avail[k]

C3_TrueOnlyIfBothAdmit ==
    \A p \in Procs :
        (crl[p].state = "done" /\ crl[p].value) =>
            /\ crl[p].global_check.kind = "returned"
            /\ crl[p].global_check.allowed
            /\ crl[p].domain_check.kind = "returned"
            /\ crl[p].domain_check.allowed

\* C4: with the store unreachable check_rate_limit fails open: it never
\* raises, and what it returns on a store error is allowed = true.
C4_FailsOpenNeverRaises ==
    \A p \in Procs :
        /\ result[p].kind # "raised"
        /\ result[p].error => result[p].allowed

\* C9: after any sequence of token requests of any size, every bucket, in the
\* local limiter, in the store and in a caller's hands, holds between 0 and
\* max_requests tokens.
TokensInBounds(b) ==
    b.present => (0 <= b.tokens /\ b.tokens <= b.config.max_requests * TokenScale)

C9_TokensWithinCapacity ==
    /\ \A k \in Keys : TokensInBounds(buckets[k]) /\ TokensInBounds(store[k])
    /\ \A p \in Procs : TokensInBounds(bucket[p])

\* C11: asked the same checks at the same times, the local limiter and the
\* store-backed limiter with a reachable store give the same allowed,
\* remaining and retry_after, and check_rate_limits gives the same answer
\* with either.
SameAnswer(l, r) ==
    /\ l.allowed = r.allowed
    /\ l.remaining = r.remaining
    /\ l.retry_after = r.retry_after

C11_LocalAnswersAsStore ==
    /\ (lastLocal.kind = "returned" /\ crl["p1"].state = "none") =>
          SameAnswer(lastLocal, result["p1"])
    /\ crl["p1"].state = "done" => crl["p1"].value = crl["p2"].value

\* C12: when a batch is cancelled with URLs still in flight, nothing stays in
\* flight and the caller holds the result of every URL whose scan was over.
C12_CancelKeepsCompletedResults ==
    batch = "cancelled" =>
        /\ InFlight = {}
        /\ \A i \in DOMAIN task :
             task[i] = "done" =>
                 \E j \in DOMAIN results : results[j] = outcome[i].value

\* C13: for every tracker list calculate_privacy_score returns an integer
\* between 0 and 100, and so does analyze_privacy_impact's privacy_score.
C13_ScoreInRange ==
    /\ calculate_privacy_score(trackers) \in 0..BaseScore
    /\ privacy_impact.kind = "returned" => privacy_impact.privacy_score \in 0..BaseScore

\* An analysed list whose penalties add up to more than 100: the clamp acts.
C13_Witness ==
    /\ privacy_impact.kind = "returned"
    /\ SumPenalties(trackers) > BaseScore
    /\ privacy_impact.privacy_score = 0

\* C14: adding a tracker to a list never raises the privacy score.
C14_AddingNeverRaisesScore ==
    privacy_impact.kind = "returned" =>
        \A t \in TrackerKinds :
            calculate_privacy_score(Append(trackers, t)) <= privacy_impact.privacy_score

\* A non-empty analysed list to which one tracker can be added that lowers
\* the score and another that leaves it as it is.
C14_Witness ==
    /\ privacy_impact.kind = "returned"
    /\ trackers # <<>>
    /\ \E t \in TrackerKinds :
         calculate_privacy_score(Append(trackers, t)) < privacy_impact.privacy_score
    /\ \E t \in TrackerKinds :
         calculate_privacy_score(Append(trackers, t)) = privacy_impact.privacy_score

\* C15: the score is 100 minus the risk-level and category penalties, the
\* category penalty being positive exactly for advertising, social
\* advertising and privacy invasion: no trackers gives 100, a single high-risk
\* advertising tracker gives less than 100 - HighPenalty, and a tracker of a
\* penalised category costs more than the same tracker in another category
\* (unless the score is 0 already).
PenalisedCategories == {"advertising", "social_advertising", "privacy_invasion"}

SameInAnalytics(ts, i) == [ts EXCEPT ![i].category = "analytics"]

C15_CategoryPenaltyApplies ==
    privacy_impact.kind = "returned" =>
        /\ trackers = <<>> => privacy_impact.privacy_score = BaseScore
        /\ trackers = <<Tracker("high", "advertising")>> =>
              privacy_impact.privacy_score < BaseScore - HighPenalty
        /\ \A i \in DOMAIN trackers :
              trackers[i].category \in PenalisedCategories =>
                  \/ privacy_impact.privacy_score = 0
                  \/ privacy_impact.privacy_score <
                        calculate_privacy_score(SameInAnalytics(trackers, i))

\* C16: the penalty per tracker rises strictly with the risk level, and a
\* single critical tracker lowers the score by more than a single high one.
C16_PenaltyStrictlyIncreasing ==
    /\ RiskPenalty(Tracker("low", "analytics")) < RiskPenalty(Tracker("medium", "analytics"))
    /\ RiskPenalty(Tracker("medium", "analytics")) < RiskPenalty(Tracker("high", "analytics"))
    /\ (privacy_impact.kind = "returned" /\ trackers = <<Tracker("critical", "analytics")>>) =>
          privacy_impact.privacy_score <
              calculate_privacy_score(<<Tracker("high", "analytics")>>)

\* C17: for a list holding a critical tracker analyze_privacy_impact reports
\* a score below 50, the overall risk high and at least one recommendation.
C17_CriticalMeansHighRisk ==
    (privacy_impact.kind = "returned" /\ CountRisk(trackers, "critical") > 0) =>
        /\ privacy_impact.privacy_score < 50
        /\ privacy_impact.risk_level = "high"
        /\ privacy_impact.recommendations > 0

\* C18: the overall risk is high whenever at least 2 trackers are of high or
\* critical risk, else medium when at least 3 are medium, else low; no
\* trackers gives low.
C18_RiskFromCounts ==
    privacy_impact.kind = "returned" =>
        privacy_impact.risk_level =
            IF CountRisk(trackers, "high") + CountRisk(trackers, "critical") >= 2
            THEN "high"
            ELSE IF CountRisk(trackers, "medium") >= 3 THEN "medium"
            ELSE "low"

\* C19: detect_trackers reports a signature exactly when one of its two
\* signals fires, the candidate's domain being one of the signature's domains
\* (the domain of the page's URL, or the src of one of its elements) or the
\* content matching one of its patterns; a signature that fires is reported
\* once, whatever else fires.
DomainSignal(id) ==
    \E k \in DOMAIN Signature(id).domains :
        \/ page_url = Signature(id).domains[k]
        \/ \E i \in DOMAIN content : content[i].src = Signature(id).domains[k]
PatternSignal(id) ==
    \E k \in DOMAIN Signature(id).patterns : InContent(content, Signature(id).patterns[k])
TimesReported(id) ==
    Cardinality({i \in DOMAIN detected.records : detected.records[i].tracker_id = id})

C19_ReportedIffSignalFires ==
    detected.kind = "returned" =>
        \A k \in DOMAIN SignatureIds :
            TimesReported(SignatureIds[k]) =
                IF DomainSignal(SignatureIds[k]) \/ PatternSignal(SignatureIds[k])
                THEN 1 ELSE 0

\* C20: two classification runs of the same content yield the same set of
\* TrackerInfo records, every field equal, whatever happened in between.
C20_ClassifyingTwiceSameRecords ==
    Len(runs) = 2 => runs[1] = runs[2]

\* C21: when the database file holds a malformed signature, constructing
\* TrackerDatabase raises; the database never runs with that signature
\* missing.
Malformed(file) ==
    \E i \in DOMAIN file.entries : file.entries[i] # "ok"

C21_MalformedSignatureFailsStartup ==
    (tracker_db.state # "none" /\ Malformed(db_path)) => tracker_db.state = "raised"

\* C22: every index returned is well-formed: its score and each of its
\* factors lie in [0, 100], and its risk category is low, medium, high or
\* critical; also for an empty list of results.
InRange100(a) == FracLeq(Whole(0), a) /\ FracLeq(a, Whole(100))

C22_IndexWellFormed ==
    privacy_index.kind = "returned" =>
        /\ InRange100(privacy_index.score)
        /\ \A f \in DOMAIN privacy_index.factors : InRange100(privacy_index.factors[f])
        /\ privacy_index.risk_category \in {"low", "medium", "high", "critical"}

\* C23: trending is improving exactly when the current composite exceeds the
\* historical composite by more than the delta, degrading exactly when it
\* falls short of it by more than the delta, and stable otherwise, as it is
\* when no historical results are supplied.
Composite(rs) == IF rs = <<>> THEN Whole(0) ELSE WeightedScore(rs)
HistorySupplied == historical_results.given /\ historical_results.results # <<>>
ExpectedTrending ==
    LET current == Composite(current_results)
        historical == Composite(historical_results.results)
    IN IF ~HistorySupplied THEN "stable"
       ELSE IF FracLess(FracAdd(historical, Whole(TrendDelta)), current) THEN "improving"
       ELSE IF FracLess(current, FracAdd(historical, Whole(-TrendDelta))) THEN "degrading"
       ELSE "stable"

C23_TrendingFollowsDelta ==
    privacy_index.kind = "returned" => privacy_index.trending = ExpectedTrending

\* C24: the index of a tracker set that is strictly worse than the baseline
\* (the baseline's trackers and at least one more, on the same page) reports
\* trending degrading.
StrictlyWorse(worse, better) ==
    /\ worse.url = better.url
    /\ Len(worse.trackers) > Len(better.trackers)
    /\ SubSeq(worse.trackers, 1, Len(better.trackers)) = better.trackers

C24_WorseSetIsDegrading ==
    (/\ privacy_index.kind = "returned"
     /\ historical_results.given
     /\ Len(current_results) = 1
     /\ Len(historical_results.results) = 1
     /\ StrictlyWorse(current_results[1], historical_results.results[1]))
        => privacy_index.trending = "degrading"

\* C30: adding a tracker to one of the current results never raises the
\* score of the index.
WithTracker(rs, i, t) ==
    [rs EXCEPT ![i] = ScanResult(rs[i].url, Append(rs[i].trackers, t))]

C30_AddingTrackerNeverRaisesIndex ==
    privacy_index.kind = "returned" =>
        \A i \in DOMAIN current_results : \A t \in IndexTrackers :
            FracLeq(IndexScore(WithTracker(current_results, i, t)), privacy_index.score)

\* C25: every series of the trend analysis has one value per requested
\* period, aligned with the period labels in ascending order, and the value
\* 0 at every period without results.
AllSeries(t) ==
    {t.tracker_count_trend, t.domain_growth, t.risk_level_distribution.low,
     t.risk_level_distribution.medium, t.risk_level_distribution.high,
     t.risk_level_distribution.critical}

C25_SeriesAlignedWithPeriods ==
    trend_analysis.kind = "returned" =>
        LET t == trend_analysis
            n == Len(results_by_period)
        IN /\ Len(t.timestamps) = n
           /\ {t.timestamps[k] : k \in 1..n} =
                  {results_by_period[i].timestamp : i \in 1..n}
           /\ \A k \in 1..(n - 1) : t.timestamps[k] < t.timestamps[k + 1]
           /\ Len(t.privacy_score_trend) = n
           /\ \A series \in AllSeries(t) : Len(series) = n
           /\ \A k \in 1..n :
                  LET rs == PeriodResults(results_by_period, t.timestamps[k])
                  IN /\ t.tracker_count_trend[k] = PeriodTrackers(rs)
                     /\ rs = <<>> =>
                            /\ t.privacy_score_trend[k] = Whole(0)
                            /\ \A series \in AllSeries(t) : series[k] = 0

\* Reached: periods given out of order, the earliest one without results and
\* a later one with results, and the analysis returned.
C25_Witness ==
    /\ trend_analysis.kind = "returned"
    /\ Len(results_by_period) >= 2
    /\ results_by_period[1].timestamp > results_by_period[2].timestamp
    /\ results_by_period[2].results = <<>>
    /\ results_by_period[1].results # <<>>
    /\ trend_analysis.tracker_count_trend[1] = 0

\* C26: on every key, the requests admitted within any interval of
\* window_seconds never exceed max_requests.
RECURSIVE AdmittedFrom(_, _, _)
AdmittedFrom(key, t, len) ==
    IF len = 0 \/ t > MaxTime THEN 0
    ELSE admissions[key][t] + AdmittedFrom(key, t + 1, len - 1)

C26_AdmittedPerWindowWithinMax ==
    \A key \in Keys : \A t \in 0..MaxTime :
        AdmittedFrom(key, t, ConfigOf(key).window_seconds) <= ConfigOf(key).max_requests

\* C28: a request that check_rate_limits rejects takes no token: when the
\* domain tier denies, the caller's global bucket holds what it held, refilled
\* to the instant of the call, before the call.
C28_RejectedRequestTakesNoToken ==
    lastCheck.value = "false" => lastCheck.global_after = lastCheck.global_before

\* C29: any two requests sent through the scanner's NetworkService start at
\* least rate_limit_delay apart: whenever a task sends its request, the
\* request before it (stamped in last_request_time) is at least
\* rate_limit_delay old.
C29_RequestsSpacedByDelay ==
    [][\A i \in DOMAIN task :
          (task[i] # "request" /\ task'[i] = "request") =>
              now - last_request_time >= rate_limit_delay]_vars

\* C27: the standalone EnhancedTrackingScanner.scan_multiple_urls returns one
\* result per input URL, result i for the URL at position i, and the result
\* of a URL whose scan failed carries an error.
C27_StandaloneOneResultPerUrl ==
    (batch = "returned" /\ scanner = "standalone") =>
        /\ Len(results) = Len(urls)
        /\ \A i \in DOMAIN urls :
            /\ results[i].url = urls[i]
            /\ Failed(fate[i]) => results[i].error # NoError

\* C5: while scan_multiple_urls runs, at most concurrent_requests scan_url
\* executions are in flight, and every URL, also one that had to wait for a
\* slot and also after failed scans, is eventually scanned: the batch returns
\* with every task done.
C5_BoundedAndEventuallyScanned ==
    /\ [](Cardinality(InFlight) <= concurrent_requests)
    /\ <>(batch = "returned" /\ \A i \in DOMAIN task : task[i] = "done")

\* The limit is reached, by a URL that found every slot taken and got the
\* slot of a scan that failed.
C5_Witness ==
    /\ Cardinality(InFlight) = concurrent_requests
    /\ \E i \in InFlight : i > concurrent_requests
    /\ \E j \in DOMAIN task : task[j] = "done" /\ Failed(fate[j])

\* C6: scan_multiple_urls returns one ScanResult per input URL, result i for
\* the URL at position i; a failed URL carries an error, and every entry is
\* what its own URL's scan alone determines.
C6_OneResultPerUrl ==
    batch = "returned" =>
        /\ Len(results) = Len(urls)
        /\ \A i \in DOMAIN urls :
            /\ results[i].url = urls[i]
            /\ Failed(fate[i]) => results[i].error # NoError
            /\ ~Failed(fate[i]) =>
                 /\ results[i].error = NoError
                 /\ results[i].trackers = fate[i].page
                 /\ results[i].privacy_score = calculate_privacy_score(fate[i].page)

\* A returned batch of three in which the second scan timed out and both
\* neighbours found trackers.
C6_Witness ==
    /\ batch = "returned"
    /\ Len(urls) > 2
    /\ fate[2].fetch = "timeout"
    /\ results[1].trackers # <<>>
    /\ results[3].trackers # <<>>

\* C7: scan_url never raises; a failed fetch (network error, non-2xx, timeout,
\* empty body) and an exception in parsing, analysis or storing each yield a
\* ScanResult for the same URL with an error and no trackers.
C7_ScanUrlNeverRaises ==
    \A i \in DOMAIN task :
        /\ outcome[i].kind # "exception"
        /\ (task[i] = "done" /\ Failed(fate[i])) =>
             /\ outcome[i].kind = "result"
             /\ outcome[i].value.url = urls[i]
             /\ outcome[i].value.error # NoError
             /\ Len(outcome[i].value.trackers) = 0

\* Scans that ended on a storage exception, on a timeout and on an empty body.
C7_Witness ==
    /\ \E i \in DOMAIN task : task[i] = "done" /\ fate[i].storage = "raised"
    /\ \E i \in DOMAIN task : task[i] = "done" /\ fate[i].fetch = "timeout"
    /\ \E i \in DOMAIN task : task[i] = "done" /\ fate[i].fetch = "empty"

\* C8: every ScanResult the basic and the enhanced scanner hand out has, when
\* its error is set, no trackers and a privacy score of 0.
ErrorResultIsEmpty(r) ==
    r.error # NoError => (r.trackers = <<>> /\ r.privacy_score = 0)

C8_ErrorImpliesEmpty ==
    /\ \A i \in DOMAIN outcome :
         outcome[i].kind = "result" => ErrorResultIsEmpty(outcome[i].value)
    /\ \A i \in DOMAIN results : ErrorResultIsEmpty(results[i])

\* The enhanced scanner returned a batch holding an error result and a
\* result with trackers.
C8_Witness ==
    /\ scanner = "enhanced"
    /\ batch = "returned"
    /\ \E i \in DOMAIN results : results[i].error # NoError
    /\ \E i \in DOMAIN results : results[i].error = NoError /\ results[i].privacy_score > 0
                                  /\ results[i].trackers # <<>>

\* C10: no page request is in flight unless the global bucket and the
\* per-domain bucket of the URL's host have admitted it (a bucket nobody has
\* created, in the local limiter or in the store, has admitted nothing).
BucketConsulted(key) == buckets[key].present \/ store[key].present

C10_FetchWaitsForAdmission ==
    \A i \in DOMAIN task :
        task[i] = "request" =>
            /\ BucketConsulted(GlobalKey(ClientId))
            /\ BucketConsulted(DomainKey(urls[i].host, ClientId))

=============================================================================
